---- MODULE Spec2Model ----
(***************************************************************************)
(* Model of the OpenCode plugin "OpenAI Multi-Account Switcher".           *)
(*                                                                         *)
(* The repository carries three revisions of the plugin's                  *)
(* "command.execute.before" handler:                                       *)
(*   "part_001"     src/unnamed/part_001    (list / save / load / del)     *)
(*   "part_002"     src/unnamed/part_002    (menu-driven, toast only)      *)
(*   "openai-multi" src/plugins/openai-multi.ts (the file install.sh       *)
(*                                           installs)                     *)
(* The variable rev fixes which revision is loaded; everything else is     *)
(* the two files the plugin works on (the profile vault and the host's     *)
(* auth.json) and the input and the observable output of the last          *)
(* invocation of the handler.                                              *)
(*                                                                         *)
(* Strings that the code parses (command, arguments, profile names) are    *)
(* sequences of one-character strings, so that trim, split, parseInt,      *)
(* Number, String and localeCompare are computed as the code computes      *)
(* them. Other JavaScript values are tagged records (Str, Num, Undef).     *)
(***************************************************************************)
EXTENDS Integers, Sequences, FiniteSets, TLC

\* ------------------------------------------------------------------ bounds

\* The clock values new Date() may return: 1..MaxTime.
MaxTime == 1

\* --------------------------------------------------------------- constants

PROVIDER_ID == "openai"

COMMAND == <<"o", "a", "i">>

\* The host's entry of another provider in auth.json (never touched).
OTHER_PROVIDER == "anthropic"

\* ------------------------------------------------------ JavaScript values

Str(s) == [t |-> "string", s |-> s, n |-> 0]

Num(k) == [t |-> "number", s |-> "", n |-> k]

Undef == [t |-> "undefined", s |-> "", n |-> 0]

typeof(v) == v.t

\* JavaScript truthiness of a value: "" , 0 and undefined are falsy.
Truthy(v) ==
  \/ v.t = "string" /\ v.s # ""
  \/ v.t = "number" /\ v.n # 0

\* ------------------------------------------------------------- characters

Digits == <<"0", "1", "2", "3", "4", "5", "6", "7", "8", "9">>

DigitSet == {Digits[i] : i \in 1..Len(Digits)}

DigitValues == [c \in DigitSet |-> (CHOOSE i \in 1..Len(Digits) : Digits[i] = c) - 1]

IsDigit(c) == c \in DigitSet

DigitVal(c) == DigitValues[c]

Lowercase ==
  <<"a", "b", "c", "d", "e", "f", "g", "h", "i", "j", "k", "l", "m",
    "n", "o", "p", "q", "r", "s", "t", "u", "v", "w", "x", "y", "z">>

Uppercase ==
  <<"A", "B", "C", "D", "E", "F", "G", "H", "I", "J", "K", "L", "M",
    "N", "O", "P", "Q", "R", "S", "T", "U", "V", "W", "X", "Y", "Z">>

UpperSet == {Uppercase[i] : i \in 1..Len(Uppercase)}

LowerSet == {Lowercase[i] : i \in 1..Len(Lowercase)}

LowerOfUpper ==
  [c \in UpperSet |-> Lowercase[CHOOSE i \in 1..Len(Uppercase) : Uppercase[i] = c]]

AlphabetIndex ==
  [c \in LowerSet |-> CHOOSE i \in 1..Len(Lowercase) : Lowercase[i] = c]

IsUpper(c) == c \in UpperSet

IsLower(c) == c \in LowerSet

LowerChar(c) == IF IsUpper(c) THEN LowerOfUpper[c] ELSE c

\* The white space of trim and of /\s+/, as the erroneous variant that knows
\* the blank only.
IsSpace_blankOnly(c) == c = " "

IsSpace(c) == c \in {" ", "\t", "\n"}

\* String.prototype.toLowerCase
toLowerCase(s) == [i \in 1..Len(s) |-> LowerChar(s[i])]

RECURSIVE TrimStart(_)
TrimStart(s) ==
  IF s # <<>> /\ IsSpace(Head(s)) THEN TrimStart(Tail(s)) ELSE s

RECURSIVE TrimEnd(_)
TrimEnd(s) ==
  IF s # <<>> /\ IsSpace(s[Len(s)])
    THEN TrimEnd(SubSeq(s, 1, Len(s) - 1))
    ELSE s

\* String.prototype.trim
trim(s) == TrimEnd(TrimStart(s))

\* s.replace(/^\//, "")
StripLeadingSlash(s) == IF s # <<>> /\ Head(s) = "/" THEN Tail(s) ELSE s

RECURSIVE SplitWs(_, _, _)
SplitWs(raw, i, cur) ==
  IF i > Len(raw)
    THEN IF cur = <<>> THEN <<>> ELSE <<cur>>
    ELSE IF IsSpace(raw[i])
      THEN IF cur = <<>>
             THEN SplitWs(raw, i + 1, <<>>)
             ELSE <<cur>> \o SplitWs(raw, i + 1, <<>>)
      ELSE SplitWs(raw, i + 1, Append(cur, raw[i]))

\* raw.trim().split(/\s+/).filter(Boolean)
parseArgs(raw) == SplitWs(trim(raw), 1, <<>>)

\* argv[i] ?? ""
ArgOr(argv, i) == IF i <= Len(argv) THEN argv[i] ELSE <<>>

\* ---------------------------------------------------------------- numbers

\* A parsed number: nan, or the integer val.
NaN == [nan |-> TRUE, val |-> 0]

Finite(k) == [nan |-> FALSE, val |-> k]

RECURSIVE DigitPrefix(_, _, _)
\* The value of the longest run of digits of s from position i on, given
\* the value acc of the digits read so far.
DigitPrefix(s, i, acc) ==
  IF i <= Len(s) /\ IsDigit(s[i])
    THEN DigitPrefix(s, i + 1, 10 * acc + DigitVal(s[i]))
    ELSE acc

\* parseInt(s, 10): leading whitespace, an optional sign, then the longest
\* prefix of digits; NaN when there is no digit.
parseInt(s) ==
  LET t == TrimStart(s)
      neg == t # <<>> /\ Head(t) = "-"
      u == IF t # <<>> /\ Head(t) \in {"-", "+"} THEN Tail(t) ELSE t
  IN IF u = <<>> \/ ~IsDigit(Head(u))
       THEN NaN
       ELSE Finite((IF neg THEN -1 ELSE 1) * DigitPrefix(u, 1, 0))

RECURSIVE NatToString(_)
NatToString(k) ==
  IF k < 10
    THEN <<Digits[k + 1]>>
    ELSE Append(NatToString(k \div 10), Digits[(k % 10) + 1])

\* String(k) for an integer k.
IntToString(k) == IF k < 0 THEN <<"-">> \o NatToString(-k) ELSE NatToString(k)

AllDigits(s) == s # <<>> /\ \A i \in 1..Len(s) : IsDigit(s[i])

\* Number(s) for the strings of the model: "" is 0, an optionally signed
\* run of digits is its value, anything else is NaN. (Fractions, exponents,
\* radix prefixes and "Infinity" are outside the alphabet of the model.)
Number(s) ==
  LET t == trim(s)
      neg == t # <<>> /\ Head(t) = "-"
      u == IF t # <<>> /\ Head(t) \in {"-", "+"} THEN Tail(t) ELSE t
  IN IF t = <<>>
       THEN Finite(0)
       ELSE IF AllDigits(u)
         THEN Finite((IF neg THEN -1 ELSE 1) * DigitPrefix(u, 1, 0))
         ELSE NaN

\* ------------------------------------------------------------- collation

\* Primary collation weight of a character: digits before letters, letters
\* in alphabetical order whatever their case.
PrimaryWeight(c) ==
  IF IsDigit(c)
    THEN 10 + DigitVal(c)
    ELSE IF IsLower(c) \/ IsUpper(c)
      THEN 100 + AlphabetIndex[LowerChar(c)]
      ELSE 0

\* Tertiary weight: lower case before upper case.
CaseWeight(c) == IF IsUpper(c) THEN 1 ELSE 0

RECURSIVE CompareWeights(_, _, _, _)
\* Lexicographic comparison of a and b from position i on :
\* -1, 0 or 1.
CompareWeights(a, b, i, useCase) ==
  IF i > Len(a) /\ i > Len(b)
    THEN 0
    ELSE IF i > Len(a)
      THEN -1
      ELSE IF i > Len(b)
        THEN 1
        ELSE LET wa == IF useCase THEN CaseWeight(a[i]) ELSE PrimaryWeight(a[i])
                 wb == IF useCase THEN CaseWeight(b[i]) ELSE PrimaryWeight(b[i])
             IN IF wa < wb
                  THEN -1
                  ELSE IF wa > wb
                    THEN 1
                    ELSE CompareWeights(a, b, i + 1, useCase)

\* a.localeCompare(b) in the default locale: primary weights first, case
\* as the tie break.
localeCompare(a, b) ==
  LET p == CompareWeights(a, b, 1, FALSE)
  IN IF p # 0 THEN p ELSE CompareWeights(a, b, 1, TRUE)

RECURSIVE SortNames(_)
\* Object.keys(profiles).sort((a, b) => a.localeCompare(b))
SortNames(S) ==
  IF S = {}
    THEN <<>>
    ELSE LET m == CHOOSE x \in S : \A y \in S : localeCompare(x, y) <= 0
         IN <<m>> \o SortNames(S \ {m})

\* ----------------------------------------------------------- JSON objects

\* A JSON object is a function from its keys to values; a missing key reads
\* as undefined.
EmptyObject == [k \in {} |-> Undef]

Get(o, k) == IF k \in DOMAIN o THEN o[k] ELSE Undef

\* { ...(cond ? { k: v } : {}) }
Optional(cond, k, v) == IF cond THEN [x \in {k} |-> v] ELSE EmptyObject

\* An optional value (T | undefined).
None == [defined |-> FALSE, value |-> EmptyObject]

Some(v) == [defined |-> TRUE, value |-> v]

\* ------------------------------------------------------------- the vault

\* A value of the profiles member that is null (a hole of an array is
\* written as null by JSON.stringify).
NullProfile ==
  [isNull |-> TRUE, name |-> <<>>, oauth |-> EmptyObject, savedAt |-> 0]

\* type StoredOAuthProfile
StoredOAuthProfile(name, oauth, savedAt) ==
  [isNull |-> FALSE, name |-> name, oauth |-> oauth, savedAt |-> savedAt]

NoProfiles == [n \in {} |-> NullProfile]

\* The vault file as it lies on disk. pkind is the JSON kind of its profiles
\* member: "object", "array", "null", "string" or "undefined" (the member
\* is missing); profiles maps the keys of an object, or the indices of an
\* array, to their values.
VaultFile(version, pkind, profiles) ==
  [exists |-> TRUE, version |-> version, pkind |-> pkind, profiles |-> profiles]

AbsentFile ==
  [exists |-> FALSE, version |-> 0, pkind |-> "undefined", profiles |-> NoProfiles]

\* type StorageFile, the value loadStorage returns for a missing file
EmptyStorage == [version |-> 1, pkind |-> "object", profiles |-> NoProfiles]

\* typeof x for the JSON kinds of the profiles member
TypeofKind(pkind) == IF pkind \in {"object", "array", "null"} THEN "object" ELSE pkind

\* loadStorage as the erroneous variant that takes a missing file for a
\* corrupt one.
loadStorage_strict(file) ==
  IF ~file.exists
       \/ file.version # 1
       \/ TypeofKind(file.pkind) # "object"
       \/ file.pkind = "null"
    THEN [ok |-> FALSE, storage |-> EmptyStorage]
    ELSE [ok |-> TRUE,
          storage |-> [version |-> file.version, pkind |-> file.pkind,
                       profiles |-> file.profiles]]

\* loadStorage: the empty vault for a missing file; an error unless
\* version is 1 and typeof profiles is "object" and profiles is not null.
loadStorage(file) ==
  IF ~file.exists
    THEN [ok |-> TRUE, storage |-> EmptyStorage]
    ELSE IF file.version # 1
              \/ TypeofKind(file.pkind) # "object"
              \/ file.pkind = "null"
      THEN [ok |-> FALSE, storage |-> EmptyStorage]
      ELSE [ok |-> TRUE,
            storage |-> [version |-> file.version, pkind |-> file.pkind,
                         profiles |-> file.profiles]]

\* A canonical array index: the decimal form of a natural number.
IsArrayIndex(name) == AllDigits(name) /\ IntToString(DigitPrefix(name, 1, 0)) = name

IndexOf(name) == DigitPrefix(name, 1, 0)

\* storage.profiles[name], as a truthiness test
HasProfile(storage, name) ==
  name \in DOMAIN storage.profiles /\ ~storage.profiles[name].isNull

\* storage.profiles[name] = profile
SetProfile(storage, name, profile) ==
  [storage EXCEPT !.profiles =
     [n \in DOMAIN storage.profiles \cup {name} |->
        IF n = name THEN profile ELSE storage.profiles[n]]]

\* delete storage.profiles[name], as the erroneous variant that empties the
\* mapping.
DeleteProfile_all(storage, name) == [storage EXCEPT !.profiles = NoProfiles]

\* delete storage.profiles[name]: the key goes; the element of an array
\* becomes a hole, which keeps its place.
DeleteProfile(storage, name) ==
  IF storage.pkind = "array" /\ IsArrayIndex(name)
    THEN SetProfile(storage, name, NullProfile)
    ELSE [storage EXCEPT !.profiles =
            [n \in DOMAIN storage.profiles \ {name} |-> storage.profiles[n]]]

\* The length of the array profiles: one more than its largest index.
ArrayLength(profiles) ==
  LET idx == {IndexOf(n) : n \in {m \in DOMAIN profiles : IsArrayIndex(m)}}
  IN IF idx = {} THEN 0 ELSE 1 + (CHOOSE i \in idx : \A j \in idx : j <= i)

\* JSON.stringify(storage.profiles) read back: an object keeps its keys; an
\* array keeps its elements 0..length-1, holes as null, and loses every
\* other property.
StringifyProfiles(storage) ==
  IF storage.pkind = "array"
    THEN [n \in {IntToString(i) : i \in 0..(ArrayLength(storage.profiles) - 1)} |->
            IF n \in DOMAIN storage.profiles THEN storage.profiles[n] ELSE NullProfile]
    ELSE storage.profiles

\* saveStorage as the erroneous variant that writes the next version number.
saveStorage_nextVersion(storage) ==
  VaultFile(storage.version + 1, storage.pkind, StringifyProfiles(storage))

\* saveStorage / writeJsonFile: the file after Bun.write of the storage.
saveStorage(storage) ==
  VaultFile(storage.version, storage.pkind, StringifyProfiles(storage))

\* Object.keys(storage.profiles).sort((a, b) => a.localeCompare(b))
SortedNames(storage) == SortNames(DOMAIN storage.profiles)

\* ------------------------------------------------------------- auth.json

\* The host's auth.json: a JSON object keyed by provider id.
AuthFile(entries) == [exists |-> TRUE, entries |-> entries]

AbsentAuth == [exists |-> FALSE, entries |-> EmptyObject]

\* readJsonFile(AUTH_PATH): fails when the file does not exist.
readJsonFile(file) ==
  IF ~file.exists
    THEN [ok |-> FALSE, err |-> "FileNotFound", json |-> EmptyObject]
    ELSE [ok |-> TRUE, err |-> "", json |-> file.entries]

\* readOpenAiAuthFromAuthFile: the oauth material of the provider's entry,
\* or the reason why the entry is refused.
readOpenAiAuthFromAuthFile(authFile) ==
  IF PROVIDER_ID \notin DOMAIN authFile
    THEN [ok |-> FALSE, err |-> "NoEntry", oauth |-> EmptyObject]
    ELSE LET entry == authFile[PROVIDER_ID]
         IN IF Get(entry, "type") # Str("oauth")
              THEN [ok |-> FALSE, err |-> "NotOauth", oauth |-> EmptyObject]
              ELSE IF typeof(Get(entry, "refresh")) # "string"
                        \/ typeof(Get(entry, "access")) # "string"
                        \/ typeof(Get(entry, "expires")) # "number"
                THEN [ok |-> FALSE, err |-> "BadPayload", oauth |-> EmptyObject]
                ELSE [ok |-> TRUE, err |-> "",
                      oauth |->
                        [refresh |-> entry.refresh,
                         access |-> entry.access,
                         expires |-> entry.expires]
                        @@ Optional(typeof(Get(entry, "enterpriseUrl")) = "string",
                                    "enterpriseUrl", Get(entry, "enterpriseUrl"))
                        @@ Optional(typeof(Get(entry, "accountId")) = "string",
                                    "accountId", Get(entry, "accountId"))]

\* isSameOauth as the erroneous variant that compares refresh tokens only.
isSameOauth_refreshOnly(a, b) ==
  IF ~b.defined THEN FALSE ELSE Get(a, "refresh") = Get(b.value, "refresh")

\* isSameOauth(a, b?): the account ids when both have one, the refresh
\* tokens otherwise.
isSameOauth(a, b) ==
  IF ~b.defined
    THEN FALSE
    ELSE IF Truthy(Get(a, "accountId")) /\ Truthy(Get(b.value, "accountId"))
      THEN Get(a, "accountId") = Get(b.value, "accountId")
      ELSE Get(a, "refresh") = Get(b.value, "refresh")

\* The body of client.auth.set, as the erroneous variant that sends the
\* whole stored oauth object.
AuthSetBody_whole(oauth) == [type |-> Str("oauth")] @@ oauth

\* The body of client.auth.set for a stored oauth object.
AuthSetBody(oauth) ==
  [type |-> Str("oauth"),
   refresh |-> Get(oauth, "refresh"),
   access |-> Get(oauth, "access"),
   expires |-> Get(oauth, "expires")]
  @@ Optional(Truthy(Get(oauth, "enterpriseUrl")),
              "enterpriseUrl", Get(oauth, "enterpriseUrl"))

\* client.auth.set as the erroneous variant that keeps no entry but the one
\* it stores.
AuthSet_dropOthers(file, id, body) == AuthFile([p \in {id} |-> body])

\* client.auth.set({ path: { id }, body }): the host stores the body as the
\* entry of the provider and keeps every other entry.
AuthSet(file, id, body) ==
  AuthFile([p \in DOMAIN file.entries \cup {id} |->
              IF p = id THEN body ELSE file.entries[p]])

\* ---------------------------------------------------- the handler's output

\* client.tui.showToast({ body: { message, variant } }): the variant and the
\* kind of message.
Toast(variant, kind) == [variant |-> variant, kind |-> kind]

\* What one invocation of the handler did, as the host and the user see it:
\*   handled   the command was the plugin's own
\*   branch    the branch of the dispatcher that ran: "none", "menu", "list",
\*             "current", "save", "del", "load" or "unknown"
\*   selector  the argument the branch worked on (a name or a number)
\*   target    the profile name the selector was resolved to
\*   toasts    the notifications shown, in order
\*   parts     output.parts: "untouched", "empty" ([]) or "text"
\*   thrown    the handler rejected (the error reached the host)
\*   err       the error that ended the command, "" when there was none
\*   active    the names list marked as active
\*   set       client.auth.set was called, with body
\*   savedAt   the timestamp a save wrote
\*   listing   what a listing written to output.parts shows: "none" (no
\*             listing there), "empty" (no saved profiles) or "profiles"
Output(branch, selector, target, toasts, parts, thrown, err, active, set, body, savedAt) ==
  [handled |-> branch # "none", branch |-> branch, selector |-> selector,
   target |-> target, toasts |-> toasts, parts |-> parts, thrown |-> thrown,
   err |-> err, active |-> active, set |-> set, body |-> body,
   savedAt |-> savedAt, listing |-> "none"]

NoOutput ==
  Output("none", <<>>, <<>>, <<>>, "untouched", FALSE, "", {}, FALSE, EmptyObject, 0)

\* The files after the invocation and its output.
Result(storage, auth, output) == [storage |-> storage, auth |-> auth, out |-> output]

\* ----------------------------------------------------------------- verbs

V_list == <<"l", "i", "s", "t">>

V_save == <<"s", "a", "v", "e">>

V_load == <<"l", "o", "a", "d">>

V_del == <<"d", "e", "l">>

V_d == <<"d">>

V_rm == <<"r", "m">>

V_remove == <<"r", "e", "m", "o", "v", "e">>

V_use == <<"u", "s", "e">>

V_switch == <<"s", "w", "i", "t", "c", "h">>

V_help == <<"h", "e", "l", "p">>

V_current == <<"c", "u", "r", "r", "e", "n", "t">>

\* ------------------------------------------------------------- resolution

\* The selector resolution of part_001 and part_002, as the erroneous
\* variant that indexes the sorted names from 0.
ResolveParseInt_offByOne(token, names) ==
  LET asNum == parseInt(token)
  IN IF ~asNum.nan /\ asNum.val > 0 /\ asNum.val < Len(names)
       THEN names[asNum.val + 1]
       ELSE token

\* let name = token; const asNum = parseInt(token, 10);
\* if (!isNaN(asNum) && asNum > 0 && asNum <= names.length) name = names[asNum - 1];
ResolveParseInt(token, names) ==
  LET asNum == parseInt(token)
  IN IF ~asNum.nan /\ asNum.val > 0 /\ asNum.val <= Len(names)
       THEN names[asNum.val]
       ELSE token

\* Number.isFinite(asNumber) && String(asNumber) === selector
\*   ? names[asNumber - 1] : fallback
\* (names[i] is undefined outside 0..length-1).
ResolveNumber(selector, names, fallback) ==
  LET asNumber == Number(selector)
  IN IF ~asNumber.nan /\ IntToString(asNumber.val) = selector
       THEN IF asNumber.val >= 1 /\ asNumber.val <= Len(names)
              THEN Some(names[asNumber.val])
              ELSE None
       ELSE fallback

\* ensureActiveAuth as the erroneous variant that lets the error of the
\* read through.
ensureActiveAuth_passThrough(authFile) ==
  LET file == readJsonFile(authFile)
      auth == readOpenAiAuthFromAuthFile(file.json)
  IN IF file.ok /\ auth.ok
       THEN [ok |-> TRUE, err |-> "", oauth |-> auth.oauth]
       ELSE [ok |-> FALSE, err |-> IF file.ok THEN auth.err ELSE file.err,
             oauth |-> EmptyObject]

\* ensureActiveAuth: the live oauth material; every failure to read it is
\* reported as "no active login".
ensureActiveAuth(authFile) ==
  LET file == readJsonFile(authFile)
      auth == readOpenAiAuthFromAuthFile(file.json)
  IN IF file.ok /\ auth.ok
       THEN [ok |-> TRUE, err |-> "", oauth |-> auth.oauth]
       ELSE [ok |-> FALSE, err |-> "NoActiveLogin", oauth |-> EmptyObject]

\* The activeOauth of loadStorageAndAuth: the live oauth material when
\* auth.json can be read and has a valid entry, undefined otherwise.
ActiveOauthOrUndefined(authFile) ==
  LET file == readJsonFile(authFile)
      auth == readOpenAiAuthFromAuthFile(file.json)
  IN IF file.ok /\ PROVIDER_ID \in DOMAIN file.json /\ auth.ok
       THEN Some(auth.oauth)
       ELSE None

\* ------------------------------------------------------ revision part_001

\* The catch block: one error toast, output.parts = [], nothing thrown.
Caught(sf, af, branch, selector, target, err) ==
  Result(sf, af,
         Output(branch, selector, target, <<Toast("error", err)>>, "empty",
                FALSE, err, {}, FALSE, EmptyObject, 0))

\* The names list marks, as the erroneous variant that marks every profile
\* once one of them is the active one.
ActiveNames_any(storage, activeOauth) ==
  IF \E n \in DOMAIN storage.profiles :
       activeOauth.defined /\ isSameOauth(storage.profiles[n].oauth, activeOauth)
    THEN DOMAIN storage.profiles
    ELSE {}

\* The names list marks: those whose oauth isSameOauth as the active one.
ActiveNames(storage, activeOauth) ==
  {n \in DOMAIN storage.profiles :
     activeOauth.defined /\ isSameOauth(storage.profiles[n].oauth, activeOauth)}

\* if (action === "list")
List001(sf, af) ==
  LET ls == loadStorage(sf)
      activeOauth == ActiveOauthOrUndefined(af)
      names == SortedNames(ls.storage)
  IN IF ~ls.ok
       THEN Caught(sf, af, "list", <<>>, <<>>, "InvalidStorage")
       ELSE IF names = <<>>
         THEN Result(sf, af,
                Output("list", <<>>, <<>>, <<Toast("info", "NoProfiles")>>,
                       "empty", FALSE, "", {}, FALSE, EmptyObject, 0))
         ELSE IF activeOauth.defined
                   /\ \E n \in DOMAIN ls.storage.profiles : ls.storage.profiles[n].isNull
           THEN Caught(sf, af, "list", <<>>, <<>>, "TypeError")
           ELSE Result(sf, af,
                  Output("list", <<>>, <<>>, <<Toast("info", "Profiles")>>,
                         "empty", FALSE, "", ActiveNames(ls.storage, activeOauth),
                         FALSE, EmptyObject, 0))

\* if (action === "save"), as the erroneous variant that writes the profile
\* before it looks whether the name is taken.
Save001_writeFirst(sf, af, argv, now) ==
  LET name == ArgOr(argv, 2)
      auth == ensureActiveAuth(af)
      ls == loadStorage(sf)
      written == saveStorage(SetProfile(ls.storage, name,
                                        StoredOAuthProfile(name, auth.oauth, now)))
  IN IF name = <<>>
       THEN Caught(sf, af, "save", name, <<>>, "Usage")
       ELSE IF ~auth.ok
         THEN Caught(sf, af, "save", name, <<>>, auth.err)
         ELSE IF ~Truthy(Get(auth.oauth, "access")) \/ ~Truthy(Get(auth.oauth, "refresh"))
           THEN Caught(sf, af, "save", name, <<>>, "InvalidAuth")
           ELSE IF ~ls.ok
             THEN Caught(sf, af, "save", name, <<>>, "InvalidStorage")
             ELSE IF HasProfile(ls.storage, name)
               THEN Caught(written, af, "save", name, name, "AlreadyExists")
               ELSE Result(written, af,
                      Output("save", name, name, <<Toast("success", "Saved")>>,
                             "empty", FALSE, "", {}, FALSE, EmptyObject, now))

\* if (action === "save")
Save001(sf, af, argv, now) ==
  LET name == ArgOr(argv, 2)
      auth == ensureActiveAuth(af)
      ls == loadStorage(sf)
  IN IF name = <<>>
       THEN Caught(sf, af, "save", name, <<>>, "Usage")
       ELSE IF ~auth.ok
         THEN Caught(sf, af, "save", name, <<>>, auth.err)
         ELSE IF ~Truthy(Get(auth.oauth, "access")) \/ ~Truthy(Get(auth.oauth, "refresh"))
           THEN Caught(sf, af, "save", name, <<>>, "InvalidAuth")
           ELSE IF ~ls.ok
             THEN Caught(sf, af, "save", name, <<>>, "InvalidStorage")
             ELSE IF HasProfile(ls.storage, name)
               THEN Caught(sf, af, "save", name, name, "AlreadyExists")
               ELSE Result(
                      saveStorage(SetProfile(ls.storage, name,
                                    StoredOAuthProfile(name, auth.oauth, now))),
                      af,
                      Output("save", name, name, <<Toast("success", "Saved")>>,
                             "empty", FALSE, "", {}, FALSE, EmptyObject, now))

\* if (action === "del"), as the erroneous variant that does not look
\* whether the profile is there.
Del001_noCheck(sf, af, argv) ==
  LET nameOrNum == ArgOr(argv, 2)
      ls == loadStorage(sf)
      targetName == ResolveParseInt(nameOrNum, SortedNames(ls.storage))
  IN IF nameOrNum = <<>>
       THEN Caught(sf, af, "del", nameOrNum, <<>>, "Usage")
       ELSE IF ~ls.ok
         THEN Caught(sf, af, "del", nameOrNum, <<>>, "InvalidStorage")
         ELSE Result(saveStorage(DeleteProfile(ls.storage, targetName)), af,
                Output("del", nameOrNum, targetName, <<Toast("success", "Removed")>>,
                       "empty", FALSE, "", {}, FALSE, EmptyObject, 0))

\* if (action === "del"), as the erroneous variant that also takes the
\* provider's entry out of auth.json when the profile is the active one.
Del001_logout(sf, af, argv) ==
  LET nameOrNum == ArgOr(argv, 2)
      ls == loadStorage(sf)
      targetName == ResolveParseInt(nameOrNum, SortedNames(ls.storage))
      active == targetName \in ActiveNames(ls.storage, ActiveOauthOrUndefined(af))
  IN IF nameOrNum = <<>>
       THEN Caught(sf, af, "del", nameOrNum, <<>>, "Usage")
       ELSE IF ~ls.ok
         THEN Caught(sf, af, "del", nameOrNum, <<>>, "InvalidStorage")
         ELSE IF ~HasProfile(ls.storage, targetName)
           THEN Caught(sf, af, "del", nameOrNum, targetName, "NotFound")
           ELSE Result(saveStorage(DeleteProfile(ls.storage, targetName)),
                  IF active
                    THEN AuthFile([p \in DOMAIN af.entries \ {PROVIDER_ID} |-> af.entries[p]])
                    ELSE af,
                  Output("del", nameOrNum, targetName, <<Toast("success", "Removed")>>,
                         "empty", FALSE, "", {}, FALSE, EmptyObject, 0))

\* if (action === "del")
Del001(sf, af, argv) ==
  LET nameOrNum == ArgOr(argv, 2)
      ls == loadStorage(sf)
      targetName == ResolveParseInt(nameOrNum, SortedNames(ls.storage))
  IN IF nameOrNum = <<>>
       THEN Caught(sf, af, "del", nameOrNum, <<>>, "Usage")
       ELSE IF ~ls.ok
         THEN Caught(sf, af, "del", nameOrNum, <<>>, "InvalidStorage")
         ELSE IF ~HasProfile(ls.storage, targetName)
           THEN Caught(sf, af, "del", nameOrNum, targetName, "NotFound")
           ELSE Result(saveStorage(DeleteProfile(ls.storage, targetName)), af,
                  Output("del", nameOrNum, targetName, <<Toast("success", "Removed")>>,
                         "empty", FALSE, "", {}, FALSE, EmptyObject, 0))

\* The activation of part_001 ("load") and part_002 ("use"): resolve the
\* selector, then client.auth.set with the profile's tokens.
Activate(sf, af, targetName) ==
  LET ls == loadStorage(sf)
      resolvedName == ResolveParseInt(targetName, SortedNames(ls.storage))
      body == AuthSetBody(ls.storage.profiles[resolvedName].oauth)
  IN IF targetName = <<>>
       THEN Caught(sf, af, "load", targetName, <<>>, "Usage")
       ELSE IF ~ls.ok
         THEN Caught(sf, af, "load", targetName, <<>>, "InvalidStorage")
         ELSE IF ~HasProfile(ls.storage, resolvedName)
           THEN Caught(sf, af, "load", targetName, resolvedName, "NotFound")
           ELSE Result(sf, AuthSet(af, PROVIDER_ID, body),
                  Output("load", targetName, resolvedName,
                         <<Toast("success", "Active")>>, "empty", FALSE, "",
                         {}, TRUE, body, 0))

\* if (action === "load")
Load001(sf, af, argv) == Activate(sf, af, ArgOr(argv, 2))

\* if (action === "unknown")
Unknown001(sf, af, argv) ==
  Result(sf, af,
         Output("unknown", ArgOr(argv, 1), <<>>, <<Toast("error", "UnknownCommand")>>,
                "empty", FALSE, "UnknownCommand", {}, FALSE, EmptyObject, 0))

\* "command.execute.before" of src/unnamed/part_001
Execute001(sf, af, command, arguments, now) ==
  LET cmd == toLowerCase(StripLeadingSlash(trim(command)))
      argv == parseArgs(arguments)
      rawSub == toLowerCase(ArgOr(argv, 1))
  IN IF cmd # COMMAND
       THEN Result(sf, af, NoOutput)
       ELSE IF rawSub = <<>> \/ rawSub = V_list
         THEN List001(sf, af)
         ELSE IF rawSub = V_save
           THEN Save001(sf, af, argv, now)
           ELSE IF rawSub = V_del
             THEN Del001(sf, af, argv)
             ELSE IF rawSub = V_load
               THEN Load001(sf, af, argv)
               ELSE Unknown001(sf, af, argv)

\* ------------------------------------------------------ revision part_002

\* The toast part_002 shows at the start of every call of the hook.
DebugToast == Toast("info", "Debug")

WithDebugToast(result) ==
  [result EXCEPT !.out.toasts = <<DebugToast>> \o @]

\* sub === "help" ? "" : sub === "switch" ? "" : sub === "list" ? "_list"
\*   : sub === "current" ? "_current" : sub
normalizedSub(sub) ==
  IF sub = V_help \/ sub = V_switch
    THEN <<>>
    ELSE IF sub = V_list
      THEN <<"_">> \o V_list
      ELSE IF sub = V_current
        THEN <<"_">> \o V_current
        ELSE sub

\* 2. SAVE: no look at the names already in the vault.
Save002(sf, af, argv, now) ==
  LET name == ArgOr(argv, 2)
      auth == ensureActiveAuth(af)
      ls == loadStorage(sf)
  IN IF name = <<>>
       THEN Caught(sf, af, "save", name, <<>>, "Usage")
       ELSE IF ~auth.ok
         THEN Caught(sf, af, "save", name, <<>>, auth.err)
         ELSE IF ~Truthy(Get(auth.oauth, "access")) \/ ~Truthy(Get(auth.oauth, "refresh"))
           THEN Caught(sf, af, "save", name, <<>>, "InvalidAuth")
           ELSE IF ~ls.ok
             THEN Caught(sf, af, "save", name, <<>>, "InvalidStorage")
             ELSE Result(
                    saveStorage(SetProfile(ls.storage, name,
                                  StoredOAuthProfile(name, auth.oauth, now))),
                    af,
                    Output("save", name, name, <<Toast("success", "Saved")>>,
                           "empty", FALSE, "", {}, FALSE, EmptyObject, now))

\* "command.execute.before" of src/unnamed/part_002
Execute002(sf, af, command, arguments, now) ==
  LET cmd == toLowerCase(StripLeadingSlash(trim(command)))
      argv == parseArgs(arguments)
      sub == normalizedSub(ArgOr(argv, 1))
  IN WithDebugToast(
       IF cmd # COMMAND
         THEN Result(sf, af, NoOutput)
         ELSE IF sub = <<>> \/ sub = <<"_">> \o V_list
           THEN List001(sf, af)
           ELSE IF sub = V_save
             THEN Save002(sf, af, argv, now)
             ELSE IF sub = V_d \/ sub = V_rm \/ sub = V_remove
               THEN Del001(sf, af, argv)
               ELSE Activate(sf, af, sub))

\* -------------------------------------- revision plugins/openai-multi.ts

\* The catch block: output.parts is the error text, one error toast, and
\* the error is thrown on to the host.
Rethrown(sf, af, branch, selector, target, err) ==
  Result(sf, af,
         Output(branch, selector, target, <<Toast("error", err)>>, "text",
                TRUE, err, {}, FALSE, EmptyObject, 0))

\* lines.length === 0 ? "(no saved profiles)" : lines.join("\n")
WithListing(result, names) ==
  [result EXCEPT !.out.listing = IF names = <<>> THEN "empty" ELSE "profiles"]

\* The menu and the hidden list: the vault and the live oauth are both
\* read strictly; the text goes to output.parts, no toast.
ListMulti(sf, af, branch) ==
  LET ls == loadStorage(sf)
      file == readJsonFile(af)
      auth == readOpenAiAuthFromAuthFile(file.json)
  IN IF ~ls.ok
       THEN Rethrown(sf, af, branch, <<>>, <<>>, "InvalidStorage")
       ELSE IF ~file.ok
         THEN Rethrown(sf, af, branch, <<>>, <<>>, file.err)
         ELSE IF ~auth.ok
           THEN Rethrown(sf, af, branch, <<>>, <<>>, auth.err)
           ELSE IF \E n \in DOMAIN ls.storage.profiles : ls.storage.profiles[n].isNull
             THEN Rethrown(sf, af, branch, <<>>, <<>>, "TypeError")
             ELSE WithListing(
                    Result(sf, af,
                      Output(branch, <<>>, <<>>, <<>>, "text", FALSE, "",
                             ActiveNames(ls.storage, Some(auth.oauth)),
                             FALSE, EmptyObject, 0)),
                    SortedNames(ls.storage))

\* Hidden: current
CurrentMulti(sf, af) ==
  LET file == readJsonFile(af)
      auth == readOpenAiAuthFromAuthFile(file.json)
  IN IF ~file.ok
       THEN Rethrown(sf, af, "current", <<>>, <<>>, file.err)
       ELSE IF ~auth.ok
         THEN Rethrown(sf, af, "current", <<>>, <<>>, auth.err)
         ELSE Result(sf, af,
                Output("current", <<>>, <<>>, <<>>, "text", FALSE, "", {},
                       FALSE, EmptyObject, 0))

\* if (normalizedSub === "save")
SaveMulti(sf, af, argv, now) ==
  LET name == ArgOr(argv, 2)
      file == readJsonFile(af)
      auth == readOpenAiAuthFromAuthFile(file.json)
      ls == loadStorage(sf)
  IN IF trim(name) = <<>>
       THEN Rethrown(sf, af, "save", name, <<>>, "MustBeNonEmpty")
       ELSE IF ~file.ok
         THEN Rethrown(sf, af, "save", name, <<>>, file.err)
         ELSE IF ~auth.ok
           THEN Rethrown(sf, af, "save", name, <<>>, auth.err)
           ELSE IF ~ls.ok
             THEN Rethrown(sf, af, "save", name, <<>>, "InvalidStorage")
             ELSE Result(
                    saveStorage(SetProfile(ls.storage, name,
                                  StoredOAuthProfile(name, auth.oauth, now))),
                    af,
                    Output("save", name, name, <<Toast("success", "Saved")>>,
                           "text", FALSE, "", {}, FALSE, EmptyObject, now))

\* Delete (public): /oai d <number>
DelMulti(sf, af, argv) ==
  LET selector == ArgOr(argv, 2)
      ls == loadStorage(sf)
      name == ResolveNumber(selector, SortedNames(ls.storage), None)
  IN IF trim(selector) = <<>>
       THEN Rethrown(sf, af, "del", selector, <<>>, "MustBeNonEmpty")
       ELSE IF ~ls.ok
         THEN Rethrown(sf, af, "del", selector, <<>>, "InvalidStorage")
         ELSE IF ~name.defined
           THEN Rethrown(sf, af, "del", selector, <<>>, "InvalidSelection")
           ELSE IF ~HasProfile(ls.storage, name.value)
             THEN Rethrown(sf, af, "del", selector, name.value, "UnknownProfile")
             ELSE Result(saveStorage(DeleteProfile(ls.storage, name.value)), af,
                    Output("del", selector, name.value,
                           <<Toast("success", "Removed")>>, "text", FALSE, "",
                           {}, FALSE, EmptyObject, 0))

\* Activate (public): /oai <number>, /oai <name>
ActivateMulti(sf, af, selector) ==
  LET ls == loadStorage(sf)
      name == ResolveNumber(selector, SortedNames(ls.storage), Some(selector))
      body == AuthSetBody(ls.storage.profiles[name.value].oauth)
  IN IF trim(selector) = <<>>
       THEN Rethrown(sf, af, "load", selector, <<>>, "MustBeNonEmpty")
       ELSE IF ~ls.ok
         THEN Rethrown(sf, af, "load", selector, <<>>, "InvalidStorage")
         ELSE IF ~name.defined
           THEN Rethrown(sf, af, "load", selector, <<>>, "InvalidSelection")
           ELSE IF ~HasProfile(ls.storage, name.value)
             THEN Rethrown(sf, af, "load", selector, name.value, "UnknownProfile")
             ELSE Result(sf, AuthSet(af, PROVIDER_ID, body),
                    Output("load", selector, name.value,
                           <<Toast("success", "Active")>>, "text", FALSE, "",
                           {}, TRUE, body, 0))

\* "command.execute.before" of src/plugins/openai-multi.ts
ExecuteMulti(sf, af, command, arguments, now) ==
  LET argv == parseArgs(arguments)
      sub == normalizedSub(ArgOr(argv, 1))
  IN IF command # COMMAND
       THEN Result(sf, af, NoOutput)
       ELSE IF sub = <<>>
         THEN ListMulti(sf, af, "menu")
         ELSE IF sub = <<"_">> \o V_list
           THEN ListMulti(sf, af, "list")
           ELSE IF sub = <<"_">> \o V_current
             THEN CurrentMulti(sf, af)
             ELSE IF sub = V_save
               THEN SaveMulti(sf, af, argv, now)
               ELSE IF sub = V_d \/ sub = V_rm \/ sub = V_remove
                 THEN DelMulti(sf, af, argv)
                 ELSE ActivateMulti(sf, af, sub)

\* ------------------------------------------------------------ the handler

Revisions == {"part_001", "part_002", "openai-multi"}

\* The hook of the loaded revision.
Execute(revision, sf, af, command, arguments, now) ==
  IF revision = "part_001"
    THEN Execute001(sf, af, command, arguments, now)
    ELSE IF revision = "part_002"
      THEN Execute002(sf, af, command, arguments, now)
      ELSE ExecuteMulti(sf, af, command, arguments, now)

\* ------------------------------------------------------------ environment

\* Entries the host may hold for the provider in auth.json.
LiveAcct1 ==
  [type |-> Str("oauth"), refresh |-> Str("r1"), access |-> Str("a1"),
   expires |-> Num(1000), accountId |-> Str("acct1")]

\* The same account after the host refreshed its tokens, with an
\* enterprise url.
LiveAcct1Refreshed ==
  [type |-> Str("oauth"), refresh |-> Str("r2"), access |-> Str("a2"),
   expires |-> Num(2000), enterpriseUrl |-> Str("e1"),
   accountId |-> Str("acct1")]

\* Another account with the refresh token of the first and an empty
\* enterprise url.
LiveAcct2 ==
  [type |-> Str("oauth"), refresh |-> Str("r1"), access |-> Str("a1"),
   expires |-> Num(1000), enterpriseUrl |-> Str(""), accountId |-> Str("acct2")]

\* An oauth entry whose access token and account id are empty strings.
LiveEmptyAccess ==
  [type |-> Str("oauth"), refresh |-> Str("r1"), access |-> Str(""),
   expires |-> Num(1000), accountId |-> Str("")]

\* An oauth entry without its expires number.
LiveNoExpires ==
  [type |-> Str("oauth"), refresh |-> Str("r1"), access |-> Str("a1")]

\* An api-key entry.
LiveApiKey == [type |-> Str("api"), key |-> Str("k1")]

LiveEntries ==
  {LiveAcct1, LiveAcct1Refreshed, LiveAcct2, LiveEmptyAccess, LiveNoExpires,
   LiveApiKey}

OtherEntry == [type |-> Str("api"), key |-> Str("k2")]

OtherOnly == [p \in {OTHER_PROVIDER} |-> OtherEntry]

\* The states the host may leave auth.json in: no file, no entry for the
\* provider, or one of the entries; the other provider's entry is there.
HostAuthFiles ==
  {AbsentAuth, AuthFile(OtherOnly)}
    \cup {AuthFile(OtherOnly @@ [p \in {PROVIDER_ID} |-> e]) : e \in LiveEntries}

\* The vault files the plugin may find when it is first used.
InitialVaultFiles ==
  {AbsentFile,
   VaultFile(2, "object", NoProfiles),
   VaultFile(1, "null", NoProfiles),
   VaultFile(1, "undefined", NoProfiles),
   VaultFile(1, "string", NoProfiles),
   VaultFile(1, "array", NoProfiles)}

Times == 1..MaxTime

RECURSIVE Join(_)
\* words.join(" ")
Join(words) ==
  IF words = <<>>
    THEN <<>>
    ELSE IF Len(words) = 1
      THEN words[1]
      ELSE words[1] \o <<" ">> \o Join(Tail(words))

\* Profile names and selectors the user types.
Name_a == <<"a">>

Name_1 == <<"1">>

Name_2 == <<"2">>

Name_01 == <<"0", "1">>

Name_2a == <<"2", "a">>

\* The names the user saves profiles under.
SaveNames == {Name_a, Name_2}

\* What the user types to select a profile: names and numbers.
Selectors == SaveNames \cup {Name_1, Name_2, Name_01, Name_2a}

\* The argument lines the user types after the command.
ArgumentLines ==
  {<<>>, V_list, V_help, V_current, V_save, V_load, V_d,
   <<" ", " ">> \o V_save \o <<" ", "\t">> \o Name_a \o <<" ">>,
   <<"L", "i", "s", "t">>}
    \cup {Join(<<V_save, n>>) : n \in SaveNames}
    \cup {Join(<<V_load, n>>) : n \in Selectors}
    \cup {Join(<<v, n>>) : v \in {V_del, V_d}, n \in Selectors \ {Name_2a}}
    \cup {Join(<<v, Name_a>>) : v \in {V_rm, V_use, V_switch}}
    \cup Selectors

\* The clock readings worth telling apart for an argument line: only save
\* reads the clock.
ClockReadings(arguments) ==
  IF \E w \in {parseArgs(arguments)} : w # <<>> /\ toLowerCase(w[1]) = V_save
    THEN Times
    ELSE {1}

\* The invocations of the hook: the plugin's command with every argument
\* line, the command as the user may type it, and another command.
Inputs ==
  {[command |-> COMMAND, arguments |-> a, now |-> t] :
     a \in ArgumentLines, t \in Times}
    \cup {[command |-> c, arguments |-> a, now |-> 1] :
            c \in {<<" ", "/", "O", "a", "i">>, <<"i", "n", "i", "t">>},
            a \in {<<>>, Join(<<V_load, Name_a>>)}}

Branches == {"none", "menu", "list", "current", "save", "del", "load", "unknown"}

\* The dispatcher picks its branch from the command and the arguments
\* before it reads a file: the inputs that take each branch of each
\* revision.
InputsByBranch ==
  [r \in Revisions |->
     [b \in Branches |->
        {i \in Inputs :
           /\ i.now \in ClockReadings(i.arguments)
           /\ Execute(r, AbsentFile, AbsentAuth, i.command, i.arguments, i.now).out.branch = b}]]

\* ------------------------------------------------------- path resolution

\* The variables of process.env the plugin reads when its module is loaded.
EnvNames == {"HOME", "XDG_CONFIG_HOME", "XDG_DATA_HOME"}

\* process.env.X: undefined when the variable is unset, a string (which may
\* be empty) when it is set.
EnvValues == {Undef, Str(""), Str("/home/u"), Str("/xdg")}

Environments == [EnvNames -> EnvValues]

\* The environment of a user session: HOME and nothing else.
HomeOnly ==
  [n \in EnvNames |-> IF n = "HOME" THEN Str("/home/u") ELSE Undef]

\* a ?? b
Nullish(a, b) == IF a = Undef THEN b ELSE a

\* `${v}` in a template literal: the string, "undefined" for undefined.
Interpolate(v) == IF v = Undef THEN "undefined" ELSE v.s

\* resolveXdgPaths of part_001; a path is the sequence of its segments, the
\* first one the base it was built from.
resolveXdgPaths(env) ==
  LET home == env["HOME"]
      xdgConfigHome == env["XDG_CONFIG_HOME"]
      xdgDataHome == env["XDG_DATA_HOME"]
  IN IF ~Truthy(xdgConfigHome) /\ ~Truthy(xdgDataHome) /\ ~Truthy(home)
       THEN [ok |-> FALSE, configHome |-> <<>>, dataHome |-> <<>>]
       ELSE [ok |-> TRUE,
             configHome |-> IF xdgConfigHome # Undef
                              THEN <<xdgConfigHome.s>>
                              ELSE <<Interpolate(home), ".config">>,
             dataHome |-> IF xdgDataHome # Undef
                            THEN <<xdgDataHome.s>>
                            ELSE <<Interpolate(home), ".local", "share">>]

\* The module while it is not loaded, and when its top level threw.
ModuleState(phase) ==
  [phase |-> phase, STORAGE_PATH |-> <<>>, AUTH_PATH |-> <<>>]

\* The top level of the module: STORAGE_PATH and AUTH_PATH, or the error of
\* resolveXdgPaths. part_002 and openai-multi.ts build both paths from
\* process.env.HOME ?? "".
LoadedModule(revision, env) ==
  LET xdg == resolveXdgPaths(env)
      home == Interpolate(Nullish(env["HOME"], Str("")))
  IN IF revision = "part_001"
       THEN IF ~xdg.ok
              THEN ModuleState("failed")
              ELSE [phase |-> "loaded",
                    STORAGE_PATH |-> xdg.configHome \o <<"opencode", "openai-accounts.json">>,
                    AUTH_PATH |-> xdg.dataHome \o <<"opencode", "auth.json">>]
       ELSE [phase |-> "loaded",
             STORAGE_PATH |-> <<home, ".config", "opencode", "openai-accounts.json">>,
             AUTH_PATH |-> <<home, ".local", "share", "opencode", "auth.json">>]

\* ------------------------------------------------------------------ state

VARIABLES
  rev,          \* the revision of the plugin that is loaded
  storageFile,  \* the vault file (STORAGE_PATH)
  authFile,     \* the host's auth.json (AUTH_PATH)
  pc,           \* "idle": no invocation; "done": the hook has returned
  inp,          \* the input of the last invocation
  out,          \* the output of the last invocation
  conc,         \* the invocations that run at the same time (SpecConcurrent)
  env,          \* process.env of the host process
  module        \* the plugin's module: not loaded, loaded with its paths, failed

vars == <<rev, storageFile, authFile, pc, inp, out, conc, env, module>>

NoInput == [command |-> <<>>, arguments |-> <<>>, now |-> 0]

\* The hook may be entered again while an earlier call awaits a file.
Invocations == {1, 2}

\* An invocation that is not running:
\*   pc        "idle", "loaded" (loadStorage returned, the write is to come),
\*             "truncated" (Bun.write has opened the file), "done"
\*   input     the command
\*   loaded    the vault file as loadStorage read it
\*   storage   the storage object after the mutation, as the file it makes
\*   out       the output of the handler for that snapshot
\*   observed  what the load saw: "none", "whole" or "torn"
IdleInvocation ==
  [pc |-> "idle", input |-> NoInput, loaded |-> AbsentFile,
   storage |-> AbsentFile, out |-> NoOutput, observed |-> "none"]

\* No invocation runs; torn: the vault file is between the truncation and
\* the content of a write.
NoConcurrency == [inv |-> [i \in Invocations |-> IdleInvocation], torn |-> FALSE]

Init ==
  /\ rev \in Revisions
  /\ storageFile \in InitialVaultFiles
  /\ authFile \in HostAuthFiles
  /\ pc = "idle"
  /\ inp = NoInput
  /\ out = NoOutput
  /\ conc = NoConcurrency
  /\ env = HomeOnly
  /\ module = LoadedModule(rev, env)

\* One invocation of the hook that takes the given branch.
Invoke(branch) ==
  /\ pc = "idle"
  /\ \E i \in InputsByBranch[rev][branch] :
       \E r \in {Execute(rev, storageFile, authFile, i.command, i.arguments, i.now)} :
         /\ r.out.branch = branch
         /\ storageFile' = r.storage
         /\ authFile' = r.auth
         /\ inp' = i
         /\ out' = r.out
  /\ pc' = "done"
  /\ UNCHANGED <<rev, conc, env, module>>

PassThrough == Invoke("none")

Menu == Invoke("menu")

List == Invoke("list")

Current == Invoke("current")

Save == Invoke("save")

Del == Invoke("del")

Load == Invoke("load")

Unknown == Invoke("unknown")

\* The host takes the output; the next command may come.
Return ==
  /\ pc = "done"
  /\ pc' = "idle"
  /\ inp' = NoInput
  /\ out' = NoOutput
  /\ UNCHANGED <<rev, storageFile, authFile, conc, env, module>>

\* The host's /connect (or a logout) rewrites auth.json between commands.
Connect ==
  /\ pc = "idle"
  /\ authFile' \in HostAuthFiles \ {authFile}
  /\ UNCHANGED <<rev, storageFile, pc, inp, out, conc, env, module>>

Next ==
  \/ PassThrough
  \/ Menu
  \/ List
  \/ Current
  \/ Save
  \/ Del
  \/ Load
  \/ Unknown
  \/ Return
  \/ Connect

Spec == Init /\ [][Next]_vars

\* ------------------------------------------------ concurrent invocations

\* The argument lines of the commands that run at the same time.
ConcurrentLines ==
  {<<>>, Join(<<V_save, Name_a>>), Join(<<V_save, Name_2>>),
   Join(<<V_del, Name_1>>), Join(<<V_d, Name_1>>)}

\* list, save and delete: the commands that call loadStorage and, save and
\* delete, saveStorage.
ConcurrentInputs ==
  [r \in Revisions |->
     {i \in {[command |-> COMMAND, arguments |-> a, now |-> 1] : a \in ConcurrentLines} :
        Execute(r, AbsentFile, AbsentAuth, i.command, i.arguments, i.now).out.branch
          \in {"menu", "list", "save", "del"}}]

\* The handler when file.json() of loadStorage throws on a file that is not
\* whole: the catch block of the revision reports the error.
FileJsonThrows(revision, af, branch, selector) ==
  IF revision = "openai-multi"
    THEN Rethrown(AbsentFile, af, branch, selector, <<>>, "SyntaxError").out
    ELSE IF revision = "part_002"
      THEN WithDebugToast(Caught(AbsentFile, af, branch, selector, <<>>, "SyntaxError")).out
      ELSE Caught(AbsentFile, af, branch, selector, <<>>, "SyntaxError").out

\* await saveStorage(storage), as the erroneous variant that applies the
\* mutation to the file as it is at the time of the write.
WrittenStorage_merged(i) ==
  Execute(rev, storageFile, authFile, conc.inv[i].input.command,
          conc.inv[i].input.arguments, conc.inv[i].input.now).storage

\* await saveStorage(storage): the storage object the invocation holds, the
\* one it loaded with its mutation, as the file content.
WrittenStorage(i) == conc.inv[i].storage

\* An invocation runs from its start to the return of loadStorage(): it
\* reads the file as it is. A file that is not whole makes file.json()
\* throw; an error, or a list, ends the command; save and delete mutate the
\* storage object and go on to write it.
LoadVault(i) ==
  /\ conc.inv[i].pc = "idle"
  /\ \E input \in ConcurrentInputs[rev] :
       \E r \in {Execute(rev, storageFile, authFile, input.command,
                         input.arguments, input.now)} :
         conc' =
           [conc EXCEPT !.inv[i] =
              IF conc.torn
                THEN [pc |-> "done", input |-> input, loaded |-> AbsentFile,
                      storage |-> AbsentFile,
                      out |-> FileJsonThrows(rev, authFile, r.out.branch, r.out.selector),
                      observed |-> "torn"]
                ELSE IF r.out.err = "" /\ r.out.branch \in {"save", "del"}
                  THEN [pc |-> "loaded", input |-> input, loaded |-> storageFile,
                        storage |-> r.storage, out |-> r.out, observed |-> "whole"]
                  ELSE [pc |-> "done", input |-> input, loaded |-> AbsentFile,
                        storage |-> AbsentFile, out |-> r.out, observed |-> "whole"]]
  /\ UNCHANGED <<rev, storageFile, authFile, pc, inp, out, env, module>>

\* Bun.write(path, text) when the file changes in one step.
BunWrite(i) ==
  /\ conc.inv[i].pc = "loaded"
  /\ storageFile' = WrittenStorage(i)
  /\ conc' = [conc EXCEPT !.inv[i].pc = "done", !.inv[i].loaded = AbsentFile,
                          !.inv[i].storage = AbsentFile, !.torn = FALSE]
  /\ UNCHANGED <<rev, authFile, pc, inp, out, env, module>>

\* Bun.write(path, text) opens the file itself, not a temporary one: the
\* old content is gone before the new one is there.
BunWriteTruncate(i) ==
  /\ conc.inv[i].pc = "loaded"
  /\ conc' = [conc EXCEPT !.inv[i].pc = "truncated", !.torn = TRUE]
  /\ UNCHANGED <<rev, storageFile, authFile, pc, inp, out, env, module>>

\* The text of Bun.write is in the file.
BunWriteFinish(i) ==
  /\ conc.inv[i].pc = "truncated"
  /\ storageFile' = WrittenStorage(i)
  /\ conc' = [conc EXCEPT !.inv[i].pc = "done", !.inv[i].loaded = AbsentFile,
                          !.inv[i].storage = AbsentFile, !.torn = FALSE]
  /\ UNCHANGED <<rev, authFile, pc, inp, out, env, module>>

\* The hook returns; it may be called again.
Complete(i) ==
  /\ conc.inv[i].pc = "done"
  /\ conc' = [conc EXCEPT !.inv[i] = IdleInvocation]
  /\ UNCHANGED <<rev, storageFile, authFile, pc, inp, out, env, module>>

InitConcurrent ==
  /\ rev \in Revisions
  /\ storageFile = AbsentFile
  /\ authFile \in {AuthFile(OtherOnly @@ [p \in {PROVIDER_ID} |-> e]) :
                     e \in {LiveAcct1, LiveAcct2}}
  /\ pc = "idle"
  /\ inp = NoInput
  /\ out = NoOutput
  /\ conc = NoConcurrency
  /\ env = HomeOnly
  /\ module = LoadedModule(rev, env)

NextConcurrent ==
  \E i \in Invocations :
    \/ LoadVault(i)
    \/ BunWrite(i)
    \/ BunWriteTruncate(i)
    \/ BunWriteFinish(i)
    \/ Complete(i)

SpecConcurrent == InitConcurrent /\ [][NextConcurrent]_vars

\* ---------------------------------------------------------------- startup

\* The host starts in some environment; the plugin is not loaded yet.
InitStartup ==
  /\ rev \in Revisions
  /\ storageFile = AbsentFile
  /\ authFile = AbsentAuth
  /\ pc = "idle"
  /\ inp = NoInput
  /\ out = NoOutput
  /\ conc = NoConcurrency
  /\ env \in Environments
  /\ module = ModuleState("unloaded")

\* The host imports the plugin: the top level of the module runs once.
LoadModule ==
  /\ module.phase = "unloaded"
  /\ module' = LoadedModule(rev, env)
  /\ UNCHANGED <<rev, storageFile, authFile, pc, inp, out, conc, env>>

NextStartup == LoadModule

SpecStartup == InitStartup /\ [][NextStartup]_vars

\* ----------------------------------------------------------------- claims

\* A step that is one invocation of the hook.
HandlerStep == pc = "idle" /\ pc' = "done"

\* The vault a command finds in a file, and whether it can be loaded.
VaultLoads(file) == loadStorage(file).ok

VaultIn(file) == loadStorage(file).storage

\* The file holds a profile under the name.
Holds(file, name) == VaultLoads(file) /\ HasProfile(VaultIn(file), name)

\* The provider's entry of auth.json, undefined fields included.
LiveEntry(file) ==
  IF file.exists /\ PROVIDER_ID \in DOMAIN file.entries
    THEN file.entries[PROVIDER_ID]
    ELSE EmptyObject

\* The live credential is one a save accepts: readable, with non-empty
\* refresh and access.
LiveSavable(file) ==
  /\ ensureActiveAuth(file).ok
  /\ Truthy(Get(ensureActiveAuth(file).oauth, "access"))
  /\ Truthy(Get(ensureActiveAuth(file).oauth, "refresh"))

\* The token is the canonical decimal form of a positive integer.
IsOrdinal(token) ==
  /\ AllDigits(token)
  /\ IntToString(DigitPrefix(token, 1, 0)) = token
  /\ DigitPrefix(token, 1, 0) >= 1

OrdinalOf(token) == DigitPrefix(token, 1, 0)

\* The errors with which a selection fails.
SelectionErrors == {"NotFound", "InvalidSelection", "UnknownProfile"}

\* C1: a save under a name the vault already holds fails with the
\* name-taken error and leaves the vault file as it was (the live credential
\* being one a save accepts).
C1_SaveOfTakenNameFails ==
  [][(/\ HandlerStep
      /\ out'.branch = "save"
      /\ LiveSavable(authFile)
      /\ Holds(storageFile, out'.selector))
       => (out'.err = "AlreadyExists" /\ storageFile' = storageFile)]_vars

\* Two optional fields agree when both are missing or empty, or both hold
\* the same value.
SameOptional(a, b) == (~Truthy(a) /\ ~Truthy(b)) \/ a = b

\* C2: a load of a saved name p puts the refresh, access, expires and
\* enterpriseUrl of the credential saved under p into the provider's entry
\* of the live slot.
C2_SaveLoadRoundTrip ==
  [][(/\ HandlerStep
      /\ out'.branch = "load"
      /\ Holds(storageFile, out'.selector))
       => LET c == VaultIn(storageFile).profiles[out'.selector].oauth
              e == LiveEntry(authFile')
          IN /\ out'.err = ""
             /\ Get(e, "refresh") = Get(c, "refresh")
             /\ Get(e, "access") = Get(c, "access")
             /\ Get(e, "expires") = Get(c, "expires")
             /\ SameOptional(Get(e, "enterpriseUrl"), Get(c, "enterpriseUrl"))]_vars

\* C3: a load or delete whose token is the canonical decimal form of k,
\* 1 <= k <= N for a vault of N profiles, targets the k-th name of the
\* sorted names: that profile's tokens go to the live slot, or that profile
\* and no other leaves the vault.
C3_OrdinalResolution ==
  [][(/\ HandlerStep
      /\ out'.branch \in {"load", "del"}
      /\ VaultLoads(storageFile)
      /\ IsOrdinal(out'.selector)
      /\ OrdinalOf(out'.selector) <= Len(SortedNames(VaultIn(storageFile))))
       => LET vault == VaultIn(storageFile)
              kth == SortedNames(vault)[OrdinalOf(out'.selector)]
          IN /\ out'.target = kth
             /\ HasProfile(vault, kth) =>
                  /\ out'.err = ""
                  /\ out'.branch = "load" =>
                       /\ out'.set
                       /\ Get(out'.body, "refresh") = Get(vault.profiles[kth].oauth, "refresh")
                       /\ LiveEntry(authFile') = out'.body
                  /\ out'.branch = "del" =>
                       /\ ~Holds(storageFile', kth)
                       /\ \A n \in DOMAIN vault.profiles \ {kth} :
                            /\ n \in DOMAIN storageFile'.profiles
                            /\ storageFile'.profiles[n] = vault.profiles[n]]_vars

\* C3 witness: an ordinal 2 was resolved to the second of two names, which
\* is not the name "2", and activated.
C3_Witness ==
  /\ pc = "done"
  /\ out.branch = "load"
  /\ out.selector = Name_2
  /\ out.target = Name_a
  /\ out.set
  /\ Holds(storageFile, Name_2)

\* C4: a load or delete whose token is a canonical positive integer greater
\* than the number of profiles fails with the selection error and changes
\* neither file.
C4_OrdinalOutOfRangeFails ==
  [][(/\ HandlerStep
      /\ out'.branch \in {"load", "del"}
      /\ VaultLoads(storageFile)
      /\ IsOrdinal(out'.selector)
      /\ OrdinalOf(out'.selector) > Len(SortedNames(VaultIn(storageFile))))
       => /\ out'.err \in SelectionErrors
          /\ storageFile' = storageFile
          /\ authFile' = authFile]_vars

\* C5: a load or delete whose token is not a canonical positive integer
\* takes the token as a name: it targets the profile of that name, and fails
\* with the selection error when there is none.
C5_NonOrdinalIsName ==
  [][(/\ HandlerStep
      /\ out'.branch \in {"load", "del"}
      /\ VaultLoads(storageFile)
      /\ out'.selector # <<>>
      /\ ~IsOrdinal(out'.selector))
       => IF Holds(storageFile, out'.selector)
            THEN out'.err = "" /\ out'.target = out'.selector
            ELSE /\ out'.err \in SelectionErrors
                 /\ storageFile' = storageFile
                 /\ authFile' = authFile]_vars

\* The fields client.auth.set always sends.
SlotFields == {"type", "refresh", "access", "expires"}

\* C6: the body a load sends to the live slot has exactly type, refresh,
\* access, expires and, when the profile has a non-empty one, enterpriseUrl,
\* with the profile's values; the accountId is not in it, and the body is
\* what the provider's entry of the live slot then holds.
C6_ActivationWritesSlotFields ==
  (pc = "done" /\ out.set) =>
    LET c == VaultIn(storageFile).profiles[out.target].oauth
        url == Get(c, "enterpriseUrl")
        hasUrl == typeof(url) = "string" /\ url # Str("")
    IN /\ DOMAIN out.body = SlotFields \cup (IF hasUrl THEN {"enterpriseUrl"} ELSE {})
       /\ "accountId" \notin DOMAIN out.body
       /\ out.body.type = Str("oauth")
       /\ \A f \in DOMAIN out.body \ {"type"} : out.body[f] = c[f]
       /\ LiveEntry(authFile) = out.body

\* C6 witness: a profile with an accountId and an enterpriseUrl was loaded.
C6_Witness ==
  /\ pc = "done"
  /\ out.set
  /\ out.err = ""
  /\ LET c == VaultIn(storageFile).profiles[out.target].oauth
     IN /\ Get(c, "accountId") = Str("acct1")
        /\ Get(c, "enterpriseUrl") = Str("e1")
        /\ Get(out.body, "enterpriseUrl") = Str("e1")

\* C7: a command that ends with an error leaves the vault file and the live
\* slot as they were.
C7_ErrorLeavesFilesUnchanged ==
  [][(HandlerStep /\ out'.err # "")
       => (storageFile' = storageFile /\ authFile' = authFile)]_vars

\* C7 witness: a save ended with the name-taken error, the vault holding the
\* name.
C7_Witness ==
  /\ pc = "done"
  /\ out.branch = "save"
  /\ out.err = "AlreadyExists"
  /\ Holds(storageFile, out.selector)

\* The vault file of an empty version-1 vault.
EmptyVaultFile == VaultFile(1, "object", NoProfiles)

\* C8: with no vault file a command does what it does on the empty
\* version-1 vault: the same output, the same live slot, the same vault
\* written (none when the command writes none), and no corrupt-vault error.
C8_AbsentVaultIsEmpty ==
  [][(HandlerStep /\ ~storageFile.exists /\ out'.handled)
       => LET r == Execute(rev, EmptyVaultFile, authFile,
                           inp'.command, inp'.arguments, inp'.now)
          IN /\ out' = r.out
             /\ out'.err # "InvalidStorage"
             /\ authFile' = r.auth
             /\ \/ storageFile' = r.storage
                \/ r.storage = EmptyVaultFile /\ storageFile' = storageFile]_vars

\* C8 witness: a list without a vault file reported "no profiles".
C8_Witness ==
  /\ pc = "done"
  /\ out.branch \in {"list", "menu"}
  /\ ~storageFile.exists
  /\ out.err = ""
  /\ (rev # "openai-multi") => out.toasts[Len(out.toasts)] = Toast("info", "NoProfiles")

\* The command gets as far as loading the vault: list and the menu always;
\* load and delete with a selector; save with a name and a live credential
\* it accepts.
ReachesLoadStorage(o, af) ==
  \/ o.branch \in {"list", "menu"}
  \/ o.branch \in {"load", "del"} /\ o.selector # <<>>
  \/ o.branch = "save" /\ o.selector # <<>> /\ LiveSavable(af)

\* C9: a vault file whose version is not 1, or whose profiles member is not
\* an object of names (an array, null, a string, missing), makes the command
\* that loads it fail with the corrupt-vault error and is left as it was.
C9_CorruptVaultRejected ==
  [][(/\ HandlerStep
      /\ storageFile.exists
      /\ storageFile.version # 1 \/ storageFile.pkind # "object"
      /\ ReachesLoadStorage(out', authFile))
       => (out'.err = "InvalidStorage" /\ storageFile' = storageFile)]_vars

\* The active-detection rule: the accountIds when both credentials carry a
\* non-empty one, the refresh strings otherwise.
HasAccountId(c) ==
  "accountId" \in DOMAIN c /\ c.accountId.t = "string" /\ c.accountId.s # ""

ActiveRule(p, live) ==
  \/ HasAccountId(p) /\ HasAccountId(live) /\ p.accountId = live.accountId
  \/ ~(HasAccountId(p) /\ HasAccountId(live)) /\ p.refresh = live.refresh

\* C10: the profiles a list marks as active are those the rule gives for the
\* live credential: equal accountIds when both have a non-empty one, equal
\* refresh strings otherwise.
C10_ActiveDetectionRule ==
  (/\ pc = "done"
   /\ out.branch \in {"list", "menu"}
   /\ out.err = ""
   /\ ActiveOauthOrUndefined(authFile).defined)
    => out.active =
         {n \in DOMAIN VaultIn(storageFile).profiles :
            ActiveRule(VaultIn(storageFile).profiles[n].oauth,
                       ActiveOauthOrUndefined(authFile).value)}

\* C10 witness: a list marked a profile whose accountId is the live one and
\* whose refresh string is not.
C10_Witness ==
  /\ pc = "done"
  /\ out.branch \in {"list", "menu"}
  /\ ActiveOauthOrUndefined(authFile).defined
  /\ \E n \in out.active :
       LET p == VaultIn(storageFile).profiles[n].oauth
           live == ActiveOauthOrUndefined(authFile).value
       IN /\ HasAccountId(p)
          /\ p.accountId = live.accountId
          /\ p.refresh # live.refresh

\* A profile mapping without the name.
RemoveName(profiles, n) == [m \in DOMAIN profiles \ {n} |-> profiles[m]]

\* C11: save and delete are inverse: a save of a name n the vault V has not
\* yields a vault that holds n and, n taken away, has the mapping of V; a
\* delete that resolves to n yields the mapping with n taken away. So save n
\* followed by a delete resolving to n gives the mapping of V back.
C11_SaveThenDeleteIsInverse ==
  [][/\ (/\ HandlerStep
         /\ out'.branch = "save"
         /\ out'.err = ""
         /\ VaultLoads(storageFile)
         /\ out'.target \notin DOMAIN VaultIn(storageFile).profiles)
          => /\ Holds(storageFile', out'.target)
             /\ RemoveName(VaultIn(storageFile').profiles, out'.target)
                  = VaultIn(storageFile).profiles
     /\ (/\ HandlerStep
         /\ out'.branch = "del"
         /\ out'.err = "")
          => /\ VaultLoads(storageFile')
             /\ VaultIn(storageFile').profiles
                  = RemoveName(VaultIn(storageFile).profiles, out'.target)]_vars

C14_OtherCommandsUntouched ==
  [][(/\ HandlerStep
      /\ toLowerCase(StripLeadingSlash(trim(inp'.command))) # COMMAND)
       => (out' = NoOutput /\ storageFile' = storageFile /\ authFile' = authFile)]_vars

\* C15: after every invocation of the plugin's command output.parts is
\* empty.
C15_PrimaryOutputEmpty ==
  (pc = "done" /\ out.handled) => out.parts = "empty"

\* The errors of reading the live credential: the file is not there; the
\* entry is missing, not oauth, or lacks a field.
LiveNotFoundErrors == {"FileNotFound"}

LiveShapeErrors == {"NoEntry", "NotOauth", "BadPayload"}

\* A save, with a name, that finds no readable live credential.
SaveWithoutLive ==
  /\ HandlerStep
  /\ out'.branch = "save"
  /\ out'.selector # <<>>
  /\ ~ensureActiveAuth(authFile).ok

C17_StoredCredentialValid ==
  \A n \in DOMAIN storageFile.profiles :
    ~storageFile.profiles[n].isNull =>
      LET c == storageFile.profiles[n].oauth
      IN /\ typeof(Get(c, "refresh")) = "string" /\ Get(c, "refresh") # Str("")
         /\ typeof(Get(c, "access")) = "string" /\ Get(c, "access") # Str("")
         /\ typeof(Get(c, "expires")) = "number"

\* C18: a profile that is in the vault before and after a step has the same
\* credential and savedAt after as before.
C18_ProfilesNeverMutated ==
  [][\A n \in DOMAIN storageFile.profiles \cap DOMAIN storageFile'.profiles :
       (Holds(storageFile, n) /\ Holds(storageFile', n))
         => storageFile'.profiles[n] = storageFile.profiles[n]]_vars

\* C19: a load that runs while another invocation writes the vault sees a
\* whole file, the old content or the new, never a file that is partly
\* written.
C19_NoTornRead ==
  \A i \in Invocations : conc.inv[i].observed \in {"none", "whole"}

\* The step completes the write of invocation i.
Writes(i) ==
  /\ conc.inv[i].pc \in {"loaded", "truncated"}
  /\ conc'.inv[i].pc = "done"

\* The snapshot invocation i loaded with its own single mutation: the
\* profile of the live credential put under the name, or the target taken
\* out.
SnapshotWithMutation(i) ==
  LET snapshot == VaultIn(conc.inv[i].loaded)
      o == conc.inv[i].out
  IN IF o.branch = "save"
       THEN saveStorage(SetProfile(snapshot, o.target,
              StoredOAuthProfile(o.target, ensureActiveAuth(authFile).oauth,
                                 conc.inv[i].input.now)))
       ELSE saveStorage(DeleteProfile(snapshot, o.target))

WordsOf(i) == parseArgs(i.arguments)

\* The last word of the argument line: the name the user asks for.
NameAsked(i) == WordsOf(i)[Len(WordsOf(i))]

\* The name is one no revision can take for a number: it starts with no
\* digit.
PlainName(n) == n # <<>> /\ ~IsDigit(n[1])

\* The verbs the dispatcher of some revision knows.
KnownVerbs ==
  {V_list, V_save, V_load, V_del, V_d, V_rm, V_remove, V_use, V_switch,
   V_help, V_current}

\* The argument line is one of the documented aliases of load: "use n",
\* "switch n" or the bare name n.
IsLoadAlias(i) ==
  \/ Len(WordsOf(i)) = 2 /\ WordsOf(i)[1] \in {V_use, V_switch}
  \/ Len(WordsOf(i)) = 1 /\ toLowerCase(WordsOf(i)[1]) \notin KnownVerbs

\* C21: "use n", "switch n" and the bare "n", n the name of a saved
\* profile, activate that profile as "load n" is to: no error, the tokens
\* of profile n in the provider's entry of the live slot, the vault file as
\* it was.
C21_LoadAliasesActivate ==
  [][(/\ HandlerStep
      /\ inp'.command = COMMAND
      /\ IsLoadAlias(inp')
      /\ PlainName(NameAsked(inp'))
      /\ Holds(storageFile, NameAsked(inp')))
       => /\ out'.err = ""
          /\ out'.set
          /\ out'.target = NameAsked(inp')
          /\ LiveEntry(authFile')
               = AuthSetBody(VaultIn(storageFile).profiles[NameAsked(inp')].oauth)
          /\ storageFile' = storageFile]_vars

\* The argument line is the delete verb or one of its documented aliases
\* with a name: "del n", "rm n" or "d n".
IsDeleteLine(i) ==
  Len(WordsOf(i)) = 2 /\ WordsOf(i)[1] \in {V_del, V_rm, V_d}

\* C22: "del n", "rm n" and "d n", n the name of a saved profile, remove
\* that profile from the vault, without an error.
C22_DeleteAliasesRemove ==
  [][(/\ HandlerStep
      /\ inp'.command = COMMAND
      /\ IsDeleteLine(inp')
      /\ PlainName(NameAsked(inp'))
      /\ Holds(storageFile, NameAsked(inp')))
       => /\ out'.err = ""
          /\ out'.target = NameAsked(inp')
          /\ ~Holds(storageFile', NameAsked(inp'))]_vars

\* C23: a first word that is no verb and no alias of any revision, and not
\* the name of a saved profile, ends with the unknown-verb error; nothing is
\* activated and neither file changes.
C23_UnknownVerbRejected ==
  [][(/\ HandlerStep
      /\ inp'.command = COMMAND
      /\ WordsOf(inp') # <<>>
      /\ toLowerCase(WordsOf(inp')[1]) \notin KnownVerbs
      /\ ~IsOrdinal(WordsOf(inp')[1])
      /\ ~Holds(storageFile, WordsOf(inp')[1]))
       => /\ out'.err = "UnknownCommand"
          /\ ~out'.set
          /\ storageFile' = storageFile
          /\ authFile' = authFile]_vars

\* The vault file is absent or a version-1 vault with a mapping of names.
ValidVault(file) == ~file.exists \/ (file.version = 1 /\ file.pkind = "object")

\* The output tells "no profiles": the info toast of part_001 and part_002,
\* the text of openai-multi.ts.
ReportsNoProfiles(o) ==
  \/ o.toasts # <<>> /\ o.toasts[Len(o.toasts)] = Toast("info", "NoProfiles")
  \/ o.parts = "text" /\ o.listing = "empty"

\* C24: a list, the vault valid and the live credential readable, ends
\* without an error; it marks as active the profiles the active rule gives
\* for the live credential and no other; on a vault without profiles it
\* tells "no profiles", and only then.
C24_ListMarksActiveOnly ==
  (/\ pc = "done"
   /\ out.branch \in {"list", "menu"}
   /\ ValidVault(storageFile)
   /\ ActiveOauthOrUndefined(authFile).defined)
    => /\ out.err = ""
       /\ \A n \in DOMAIN VaultIn(storageFile).profiles :
            n \in out.active
              <=> ActiveRule(VaultIn(storageFile).profiles[n].oauth,
                            ActiveOauthOrUndefined(authFile).value)
       /\ out.active \subseteq DOMAIN VaultIn(storageFile).profiles
       /\ ReportsNoProfiles(out) <=> DOMAIN VaultIn(storageFile).profiles = {}

\* C24 witness: a list of two profiles marked the one and not the other.
C24_Witness ==
  /\ pc = "done"
  /\ out.branch \in {"list", "menu"}
  /\ out.err = ""
  /\ Cardinality(DOMAIN VaultIn(storageFile).profiles) = 2
  /\ Cardinality(out.active) = 1

\* C25: a command of the plugin that fails ends with the error toast and
\* returns; the error does not reach the host.
C25_NothingIsFatal ==
  (pc = "done" /\ out.handled /\ out.err # "")
    => /\ ~out.thrown
       /\ out.toasts # <<>>
       /\ out.toasts[Len(out.toasts)] = Toast("error", out.err)

\* The path is the value of a variable that is set, followed by the
\* segments.
BuiltFrom(path, name, segments) ==
  env[name] # Undef /\ path = <<env[name].s>> \o segments

\* C26: the module either fails to load with the error of the path
\* resolution, or has a vault path and a live-slot path each built from a
\* variable that is set: XDG_CONFIG_HOME (XDG_DATA_HOME) or HOME.
C26_PathsFromSetVariables ==
  module.phase = "loaded"
    => /\ \/ BuiltFrom(module.STORAGE_PATH, "XDG_CONFIG_HOME",
                        <<"opencode", "openai-accounts.json">>)
          \/ BuiltFrom(module.STORAGE_PATH, "HOME",
                        <<".config", "opencode", "openai-accounts.json">>)
       /\ \/ BuiltFrom(module.AUTH_PATH, "XDG_DATA_HOME",
                        <<"opencode", "auth.json">>)
          \/ BuiltFrom(module.AUTH_PATH, "HOME",
                        <<".local", "share", "opencode", "auth.json">>)

\* Invocation i is a save that has loaded the vault, found the name free and
\* not yet finished its write: the success toast is all that is to come.
SaveUnderWay(i) ==
  /\ conc.inv[i].pc \in {"loaded", "truncated"}
  /\ conc.inv[i].out.branch = "save"
  /\ conc.inv[i].out.err = ""

\* C27: two saves of the same name that run at the same time, on a vault
\* without the name, do not both succeed: never are both past the look for
\* the name with success as their outcome.
C27_ConcurrentSaveUnique ==
  ~(/\ \A i \in Invocations : SaveUnderWay(i)
    /\ conc.inv[1].out.target = conc.inv[2].out.target)

\* C28: a load or a delete whose selector is the name of a profile of a
\* valid vault, a name of digits included, targets that profile and succeeds: the
\* load puts its tokens into the live slot, the delete takes it out of the
\* vault.
C28_SelectionByNameReachesName ==
  [][(/\ HandlerStep
      /\ out'.branch \in {"load", "del"}
      /\ ValidVault(storageFile)
      /\ Holds(storageFile, out'.selector))
       => /\ out'.err = ""
          /\ out'.target = out'.selector
          /\ out'.branch = "load" =>
               LiveEntry(authFile')
                 = AuthSetBody(VaultIn(storageFile).profiles[out'.selector].oauth)
          /\ out'.branch = "del" => ~Holds(storageFile', out'.selector)]_vars

\* C29: list, the menu, current, an unknown verb and a command of another
\* plugin change neither file; load leaves the vault file as it was; save and
\* delete leave auth.json as it was.
C29_CommandsWriteOwnStore ==
  [][HandlerStep
       => /\ out'.branch \in {"none", "menu", "list", "current", "unknown"}
               => (storageFile' = storageFile /\ authFile' = authFile)
          /\ out'.branch = "load" => storageFile' = storageFile
          /\ out'.branch \in {"save", "del"} => authFile' = authFile]_vars

\* C29 witness: a delete took a profile out of the vault and the live slot
\* still holds a readable credential.
C29_Witness ==
  /\ pc = "done"
  /\ out.branch = "del"
  /\ out.err = ""
  /\ storageFile.exists
  /\ ~Holds(storageFile, out.target)
  /\ ActiveOauthOrUndefined(authFile).defined

RequiredFields == {"refresh", "access", "expires"}

OptionalFields == {"enterpriseUrl", "accountId"}

\* The credential is the one of the provider's entry: refresh, access and
\* expires, and enterpriseUrl and accountId exactly when the entry has them.
IsCredentialOf(c, entry) ==
  /\ DOMAIN c = RequiredFields \cup (OptionalFields \cap DOMAIN entry)
  /\ \A f \in DOMAIN c : c[f] = entry[f]

\* C31: a save that succeeds under a name n the vault has not puts one
\* profile into the vault, under n, with the credential of the live slot
\* (enterpriseUrl and accountId included when the entry has them); every
\* other profile is in the vault after it exactly when it was before, and
\* unchanged.
C31_SaveAddsLiveCredential ==
  [][(/\ HandlerStep
      /\ out'.branch = "save"
      /\ out'.err = ""
      /\ ~Holds(storageFile, out'.target))
       => /\ Holds(storageFile', out'.target)
          /\ IsCredentialOf(VaultIn(storageFile').profiles[out'.target].oauth,
                            LiveEntry(authFile))
          /\ \A n \in (DOMAIN storageFile.profiles \cup DOMAIN storageFile'.profiles)
                         \ {out'.target} :
               /\ Holds(storageFile, n) <=> Holds(storageFile', n)
               /\ Holds(storageFile, n)
                    => storageFile'.profiles[n] = storageFile.profiles[n]]_vars

\* C32: a step from an absent or valid vault file leaves an absent or valid
\* vault file (version 1, a mapping of names), and no command run on such a
\* file fails with the corrupt-vault error.
C32_VaultValidityPreserved ==
  [][ValidVault(storageFile)
       => /\ ValidVault(storageFile')
          /\ HandlerStep => out'.err # "InvalidStorage"]_vars

\* C32 witness: a command wrote the vault file, which was not there or was
\* valid, and the file is a version-1 vault holding a profile.
C32_Witness ==
  /\ pc = "done"
  /\ out.branch \in {"save", "del"}
  /\ out.err = ""
  /\ storageFile.exists
  /\ ValidVault(storageFile)
  /\ \E n \in DOMAIN storageFile.profiles : Holds(storageFile, n)

\* The characters a name must not have.
WhiteSpace == {" ", "\t", "\n"}

\* C33: every profile of the vault file is stored under its own name, and
\* the name is not empty and has no white space.
C33_KeyIsName ==
  \A k \in DOMAIN storageFile.profiles :
    ~storageFile.profiles[k].isNull
      => /\ storageFile.profiles[k].name = k
         /\ k # <<>>
         /\ \A i \in 1..Len(k) : k[i] \notin WhiteSpace

\* C33 witness: a save whose argument line has blanks and a tab around the
\* name stored the profile under the bare name.
C33_Witness ==
  /\ pc = "done"
  /\ out.branch = "save"
  /\ out.err = ""
  /\ \E j \in 1..Len(inp.arguments) : inp.arguments[j] = "\t"
  /\ Holds(storageFile, out.target)
  /\ storageFile.profiles[out.target].name = Name_a

\* C34: every invocation of the plugin's command shows exactly one toast, of
\* the variant success, info or error.
C34_ExactlyOneNotification ==
  (pc = "done" /\ out.handled)
    => /\ Len(out.toasts) = 1
       /\ out.toasts[1].variant \in {"success", "info", "error"}

\* C35: a list on a vault that loads, the live slot unreadable (no file, no
\* entry of the provider, or a malformed entry), ends without an error,
\* tells the profiles, or that there are none, and marks none as active.
C35_ListWithoutLiveSlot ==
  (/\ pc = "done"
   /\ out.branch \in {"list", "menu"}
   /\ VaultLoads(storageFile)
   /\ ~ActiveOauthOrUndefined(authFile).defined)
    => /\ out.err = ""
       /\ ~out.thrown
       /\ out.active = {}
       /\ ReportsNoProfiles(out) <=> DOMAIN VaultIn(storageFile).profiles = {}

====
